---------------------------- MODULE Spec2Model ----------------------------
(***************************************************************************)
(* Model of the HermitCore port of lwIP: the operating-system adaptation   *)
(* layer (src/src/arch/sys_arch.c: semaphores, mailboxes, socket shim) and *)
(* the uhyve para-virtual network driver (src/src/arch/uhyve-net.c).       *)
(*                                                                         *)
(* The module holds seven state machines over one set of variables:        *)
(*   SpecSys   tasks using a semaphore, a mailbox or a mutex               *)
(*   SpecNic   driver initialisation, interrupt, receive poll, worker      *)
(*   SpecOut   the transmit path applied to bounded frames                 *)
(*   SpecSock  the socket shim in front of the stack's native calls        *)
(*   SpecRand  the random number generator in two boots of the program     *)
(*   SpecMac   the decoding of the MAC address at initialisation           *)
(*   SpecCopy  the copy loop of the receive poll on one frame              *)
(* Each specification leaves the variables of the others at their initial  *)
(* values.  The semaphore and the mailbox share no state, and a task is in *)
(* one call at a time, so SpecSys explores them one object at a time: its  *)
(* initial state chooses the object the tasks work on.                     *)
(***************************************************************************)
EXTENDS Integers, Sequences, FiniteSets, TLC

(***************************************************************************)
(* Bounds of the model.                                                    *)
(***************************************************************************)
NumTasks == 2
MaxCount == 2
MaxSignals == 2
MaxNew == 2
MaxPosts == 3
MaxSize == 3
\* capacity of the kernel's pointer mailbox (MAILBOX_SIZE of the kernel
\* configuration), scaled down
MAILBOX_SIZE == 2
MaxFrames == 3
MaxIrq == 1
\* capacity of the stack's callback queue (TCPIP_MBOX_SIZE), scaled down
TcpipMboxSize == 2
MaxSegs == 2
MaxXmit == 2
MaxFd == 2
MaxReady == 2
MaxRand == 3
MaxTsc == 8

(***************************************************************************)
(* Constants of the program and of the headers it includes.                *)
(***************************************************************************)
ERR_OK == 0
ERR_MEM == -1
ERR_VAL == -6
ERR_IF == -12
\* 0xffffffff (u32_t), held as the int32 with the same bits
SYS_ARCH_TIMEOUT == -1
SYS_MBOX_EMPTY == SYS_ARCH_TIMEOUT
EINVAL == 22
ETIME == 62
EBUSY == 16
RX_BUF_LEN == 2048
\* the longest frame uhyve_netif_output sends
MaxFrameLen == 1792
\* the bit that marks a descriptor of the stack: 1 << 30
LWIP_FD_BIT == 1073741824
\* ~LWIP_FD_BIT, its 31 low bits (descriptors are non-negative ints)
NOT_LWIP_FD_BIT == 1073741823
ENOPROTOOPT == 109
EBADF == 9
\* 0x7fffffff
RAND_MAX == 2147483647
ETHARP_HWADDR_LEN == 6

Tasks == 1..NumTasks
\* the two runs of the program whose random numbers are compared
Boots == {1, 2}
Frames == 1..MaxFrames
\* the callers of uhyve_netif_poll: uhyve_netif_init, uhyve_irqhandler, and
\* any other code of the kernel (the function is global)
Ctx == {"init", "irq", "ext"}
\* lengths of the frames the hypervisor holds
FrameLens == {64, 300}

VARIABLES
    target,         \* the object the tasks of SpecSys work on: "sem", "mbox" or "mutex"
    \* ---- sys_arch.c: semaphore sys_sem_t {sem, valid}
    sem_valid,      \* sem->valid
    sem_value,      \* value of the kernel semaphore sem->sem
    sem_used,       \* lwip_stats.sys.sem.used
    \* ---- sys_arch.c: mailbox sys_mbox_t {mailbox, valid}
    mbox_valid,     \* mbox->valid
    mbox_q,         \* messages held by the kernel mailbox mbox->mailbox, oldest first
    mbox_used,      \* lwip_stats.sys.mbox.used
    mbox_size,      \* the argument "size" of the last successful sys_mbox_new
    nPost,          \* messages accepted so far; the k-th accepted message is pointer k
    \* ---- the calling tasks
    pc,             \* pc[t]: "idle", or the call task t is blocked in
    arg,            \* arg[t]: the timeout of the pending wait or fetch
    last,           \* the last completed call: name, value returned, value stored in *msg
    \* ---- history of the current semaphore
    initCount,      \* count given to the last successful sys_sem_new
    nSignal,        \* sys_sem_signal calls since then
    nWaitOk,        \* sys_arch_sem_wait calls that returned 0 since then
    \* ---- kernel resources behind the semaphore and the mailbox
    sem_alive,      \* sem->sem is initialised (sem_init) and not yet destroyed
    mbox_alive,     \* mbox->mailbox is initialised and not yet destroyed
    \* ---- sys_arch.c: mutex sys_mutex_t, a kernel semaphore
    mutex_made,     \* sys_mutex_new has run
    mutex_value,    \* value of the kernel semaphore
    mutex_used,     \* lwip_stats.sys.mutex.used
    nLocked,        \* nLocked[t]: how often sys_mutex_lock has returned to task t
    unlockers,      \* the tasks that have called sys_mutex_unlock
    holding,        \* holding[t]: returned sys_mutex_lock calls of t not yet matched
                    \* by a sys_mutex_unlock of t
    undisciplined,  \* some sys_mutex_unlock came from a task not holding the mutex
    \* ---- uhyve-net.c: driver state
    init_pc,            \* where init_uhyve_netif / uhyve_netif_init is
    uhyve_net_init_ok,  \* static int8_t uhyve_net_init_ok
    mynetif,            \* TRUE once mynetif points to the interface
    handler,            \* TRUE once irq_install_handler(UHYVE_IRQ, ...) has run
    rx_buf,             \* uhyve_netif->rx_buf: the frame it holds and its length
    \* ---- uhyve-net.c: the invocations of uhyve_netif_poll, one called by
    \* uhyve_netif_init ("init"), one by uhyve_irqhandler ("irq")
    ppc,                \* ppc[c]: where invocation c is
    plen,               \* plen[c]: the local len
    pp,                 \* pp[c]: the local p (0 is NULL)
    cur,                \* cur[c]: the frame the last read of c delivered
    inv,                \* inv[c]: what invocation c has done so far
    \* ---- the hypervisor, the stack and the interrupt controller
    nFrames,            \* frames the channel has delivered; frame k is the k-th
    owner,              \* owner[f]: who holds the pbuf allocated for frame f
    freed,              \* freed[f]: how often pbuf_free was called on it
    data,               \* data[f]: the frame whose bytes were copied into it
    tcpipq,             \* callbacks queued for the stack's worker thread
    delivered,          \* pbufs passed to mynetif->input, in order
    link_recv,          \* lwip_stats.link.recv
    link_drop,          \* lwip_stats.link.drop
    link_memerr,        \* lwip_stats.link.memerr
    nIrq,               \* interrupts delivered to uhyve_irqhandler
    nEoi,               \* eoi() calls
    \* ---- uhyve-net.c: the transmit path
    out,                \* the last uhyve_netif_output call: the pbuf chain (the len
                        \* of each segment), the value returned, the lengths given
                        \* to uhyve_net_write_sync, link.xmit before the call
    link_xmit,          \* lwip_stats.link.xmit
    \* ---- sys_arch.c: the socket shim
    opened,             \* <<descriptor returned by socket()/accept(), descriptor of the stack>>
    sock,               \* the last shim call: name, descriptor passed, descriptor the
                        \* stack received, value the stack returned, value returned
    errno,              \* the stack's errno
    getreent,           \* *libc_errno()
    \* ---- sys_arch.c: the random number generator, in each of the boots
    has_rdrand,         \* has_rdrand(): the processor has the RDRAND instruction
    rand_seed,          \* rand_seed[b]: static unsigned int rand_seed
    rand_inited,        \* rand_inited[b]: sys_init has called __rand_init
    rand_start,         \* rand_start[b]: rand_seed before the first call of the sequence
    rand_seq,           \* rand_seq[b]: the values lwip_rand has returned, in order
    \* ---- uhyve-net.c: the MAC address decoded by uhyve_netif_init
    mac_str,            \* mac_str: the characters the hypervisor supplied (<<>> before)
    mac_ptr,            \* hermit_mac, as an index into mac_str (from 1)
    tmp8,               \* the loop counter tmp8
    hwaddr,             \* netif->hwaddr
    \* ---- uhyve-net.c: the copy loop of uhyve_netif_poll on one frame
    cp_chain,           \* q->len of each segment of the pbuf p (<<>> before pbuf_alloc)
    cp_q,               \* the segment q points to, from 1 (Len + 1 is NULL)
    cp_pos,             \* uint8_t pos
    cp_src              \* the offset into rx_buf each memcpy read from, per segment

semVars == <<sem_valid, sem_value, sem_used, initCount, nSignal, nWaitOk>>
mboxVars == <<mbox_valid, mbox_q, mbox_used, mbox_size, nPost>>
lifeVars == <<sem_alive, mbox_alive>>
mutexVars == <<mutex_made, mutex_value, mutex_used, nLocked, unlockers, holding, undisciplined>>
sysVars == <<target, semVars, mboxVars, lifeVars, mutexVars, pc, arg, last>>

drvVars == <<init_pc, uhyve_net_init_ok, mynetif, handler>>
pollVars == <<rx_buf, ppc, plen, pp, cur, inv, nFrames>>
pbufVars == <<owner, freed, data, tcpipq, delivered>>
statVars == <<link_recv, link_drop, link_memerr>>
irqVars == <<nIrq, nEoi>>
nicVars == <<drvVars, pollVars, pbufVars, statVars, irqVars>>

outVars == <<out, link_xmit>>
sockVars == <<opened, sock, errno, getreent>>

randVars == <<has_rdrand, rand_seed, rand_inited, rand_start, rand_seq>>
macVars == <<mac_str, mac_ptr, tmp8, hwaddr>>
copyVars == <<cp_chain, cp_q, cp_pos, cp_src>>
utilVars == <<randVars, macVars, copyVars>>

vars == <<sysVars, nicVars, outVars, sockVars, utilVars>>

SysInit(tg) ==
    /\ target = tg
    /\ sem_valid = FALSE
    /\ sem_value = 0
    /\ sem_used = 0
    /\ mbox_valid = FALSE
    /\ mbox_q = <<>>
    /\ mbox_used = 0
    /\ mbox_size = 0
    /\ nPost = 0
    /\ pc = [t \in Tasks |-> "idle"]
    /\ arg = [t \in Tasks |-> 0]
    /\ last = [op |-> "none", ret |-> 0, msg |-> 0]
    /\ initCount = 0
    /\ nSignal = 0
    /\ nWaitOk = 0
    /\ sem_alive = FALSE
    /\ mbox_alive = FALSE
    /\ mutex_made = FALSE
    /\ mutex_value = 0
    /\ mutex_used = 0
    /\ nLocked = [t \in Tasks |-> 0]
    /\ unlockers = {}
    /\ holding = [t \in Tasks |-> 0]
    /\ undisciplined = FALSE

NoInv == [entered |-> FALSE, read |-> 0, hand |-> 0, drop |-> 0, ack |-> 0, drained |-> FALSE]

InitNic ==
    /\ init_pc = "start"
    /\ uhyve_net_init_ok = 0
    /\ mynetif = FALSE
    /\ handler = FALSE
    /\ rx_buf = [frame |-> 0, len |-> 0]
    /\ ppc = [c \in Ctx |-> "idle"]
    /\ plen = [c \in Ctx |-> 0]
    /\ pp = [c \in Ctx |-> 0]
    /\ cur = [c \in Ctx |-> 0]
    /\ inv = [c \in Ctx |-> NoInv]
    /\ nFrames = 0
    /\ owner = [f \in Frames |-> "pool"]
    /\ freed = [f \in Frames |-> 0]
    /\ data = [f \in Frames |-> 0]
    /\ tcpipq = <<>>
    /\ delivered = <<>>
    /\ link_recv = 0
    /\ link_drop = 0
    /\ link_memerr = 0
    /\ nIrq = 0
    /\ nEoi = 0

InitOut ==
    /\ out = [chain |-> <<>>, ret |-> 0, writes |-> <<>>, xmit0 |-> 0]
    /\ link_xmit = 0

InitSock ==
    /\ opened = {}
    /\ sock = [call |-> "none", s |-> 0, native |-> 0, nret |-> 0, ret |-> 0]
    /\ errno = 0
    /\ getreent = 0

\* static unsigned int rand_seed = 0; hw says whether the processor has RDRAND
InitRand(hw) ==
    /\ has_rdrand = hw
    /\ rand_seed = [b \in Boots |-> 0]
    /\ rand_inited = [b \in Boots |-> FALSE]
    /\ rand_start = [b \in Boots |-> 0]
    /\ rand_seq = [b \in Boots |-> <<>>]

InitMac ==
    /\ mac_str = <<>>
    /\ mac_ptr = 0
    /\ tmp8 = 0
    /\ hwaddr = [i \in 0..(ETHARP_HWADDR_LEN - 1) |-> 0]

InitCopy ==
    /\ cp_chain = <<>>
    /\ cp_q = 0
    /\ cp_pos = 0
    /\ cp_src = <<>>

InitUtil == InitRand(FALSE) /\ InitMac /\ InitCopy

\* SpecSys: the tasks work on the semaphore, on the mailbox or on the mutex
InitSys ==
    \E tg \in {"sem", "mbox", "mutex"} :
        SysInit(tg) /\ InitNic /\ InitOut /\ InitSock /\ InitUtil

\* the other specifications: no task uses the semaphore or the mailbox
Init == SysInit("none") /\ InitNic /\ InitOut /\ InitSock /\ InitUtil

(***************************************************************************)
(* Kernel primitives used by sys_arch.c (hermit/semaphore.h, mailbox.h).   *)
(***************************************************************************)
\* sem_wait under the semaphore's lock: 0 (and a decrement) when value > 0,
\* -ETIME when the deadline has passed, else the task stays blocked (1)
sem_wait_err(value, timedout) ==
    IF value > 0 THEN 0 ELSE IF timedout THEN -ETIME ELSE 1

\* mailbox_ptr_trypost: -EBUSY when no box is free
mailbox_ptr_trypost_err(q) == IF Len(q) < MAILBOX_SIZE THEN 0 ELSE -EBUSY

\* mailbox_ptr_tryfetch: nonzero when no mail is there
mailbox_ptr_tryfetch_err(q) == IF Len(q) > 0 THEN 0 ELSE -EINVAL

(***************************************************************************)
(* sys_arch.c: the values the adaptation layer returns.                    *)
(***************************************************************************)
sys_arch_sem_wait_always0(err) == 0

sys_arch_sem_wait_ret(err) == IF err = 0 THEN 0 ELSE SYS_ARCH_TIMEOUT

sys_arch_mbox_fetch_always0(err) == 0

sys_arch_mbox_fetch_ret(err) == IF err = 0 THEN 0 ELSE SYS_ARCH_TIMEOUT

sys_arch_mbox_tryfetch_ret(r) == IF r # 0 THEN SYS_MBOX_EMPTY ELSE 0

sys_mbox_trypost_ret(err) == IF err # 0 THEN ERR_MEM ELSE ERR_OK

\* task t returns r from the call "name", having stored m in *msg
\* (r = 0 for a void call, m = 0 when nothing was stored)
Done(t, name, r, m) ==
    /\ pc' = [pc EXCEPT ![t] = "idle"]
    /\ arg' = [arg EXCEPT ![t] = 0]
    /\ last' = [op |-> name, ret |-> r, msg |-> m]

(***************************************************************************)
(* Semaphores.                                                             *)
(***************************************************************************)
\* sys_sem_new(s, count); count is a u8_t, err is the result of sem_init.
\* The owner of a semaphore does not create it anew while it is being freed.
sys_sem_new(t, count, err) ==
    /\ target = "sem"
    /\ pc[t] = "idle"
    /\ \A u \in Tasks : pc[u] # "sem_free"
    /\ sem_used < MaxNew
    /\ IF err < 0
       THEN /\ Done(t, "sem_new", ERR_VAL, 0)
            /\ UNCHANGED <<semVars, sem_alive>>
       ELSE /\ sem_value' = count % 256
            /\ sem_alive' = TRUE
            /\ sem_used' = sem_used + 1
            /\ sem_valid' = TRUE
            /\ initCount' = count % 256
            /\ nSignal' = 0
            /\ nWaitOk' = 0
            /\ Done(t, "sem_new", ERR_OK, 0)
    /\ UNCHANGED <<nicVars, outVars, sockVars, utilVars, target, mbox_alive, mutexVars, mboxVars>>

\* sys_sem_signal(sem): sem_post
sys_sem_signal(t) ==
    /\ target = "sem"
    /\ pc[t] = "idle"
    /\ sem_valid
    /\ nSignal < MaxSignals
    /\ sem_value' = sem_value + 1
    /\ nSignal' = nSignal + 1
    /\ Done(t, "sem_signal", 0, 0)
    /\ UNCHANGED <<nicVars, outVars, sockVars, utilVars, target, lifeVars, mutexVars, sem_valid, sem_used, initCount, nWaitOk, mboxVars>>

\* sys_arch_sem_wait(sem, timeout): the call enters the kernel's sem_wait
sys_arch_sem_wait_call(t, timeout) ==
    /\ target = "sem"
    /\ pc[t] = "idle"
    /\ sem_valid
    /\ pc' = [pc EXCEPT ![t] = "sem_wait"]
    /\ arg' = [arg EXCEPT ![t] = timeout]
    /\ UNCHANGED <<nicVars, outVars, sockVars, utilVars, target, lifeVars, mutexVars, semVars, mboxVars, last>>

\* sem_wait finds value > 0 and takes it, or its deadline has passed
sys_arch_sem_wait_return(t, timedout) ==
    /\ pc[t] = "sem_wait"
    /\ timedout => arg[t] # 0
    /\ LET err == sem_wait_err(sem_value, timedout)
           r == sys_arch_sem_wait_ret(err)
       IN  /\ err <= 0
           /\ sem_value' = IF err = 0 THEN sem_value - 1 ELSE sem_value
           /\ nWaitOk' = IF r = 0 THEN nWaitOk + 1 ELSE nWaitOk
           /\ Done(t, "sem_wait", r, 0)
    /\ UNCHANGED <<nicVars, outVars, sockVars, utilVars, target, lifeVars, mutexVars, sem_valid, sem_used, initCount, nSignal, mboxVars>>

\* sys_sem_valid(sem): returns sem->valid
sys_sem_valid(t) ==
    /\ target = "sem"
    /\ pc[t] = "idle"
    /\ Done(t, "sem_valid", IF sem_valid THEN 1 ELSE 0, 0)
    /\ UNCHANGED <<nicVars, outVars, sockVars, utilVars, target, lifeVars, mutexVars, semVars, mboxVars>>

\* a variant of sys_sem_free that releases the kernel semaphore first
sys_sem_free_call_release1st(t) ==
    /\ target = "sem"
    /\ pc[t] = "idle"
    /\ sem_valid
    /\ \A u \in Tasks : pc[u] # "sem_free"
    /\ sem_alive' = FALSE
    /\ pc' = [pc EXCEPT ![t] = "sem_free"]
    /\ UNCHANGED <<nicVars, outVars, sockVars, utilVars, target, mbox_alive, mutexVars, semVars,
                   mboxVars, arg, last>>

\* sys_sem_free(sem), first half: sem->valid = FALSE; SYS_STATS_DEC(sem.used)
sys_sem_free_call(t) ==
    /\ target = "sem"
    /\ pc[t] = "idle"
    /\ sem_valid
    /\ \A u \in Tasks : pc[u] # "sem_free"
    /\ sem_valid' = FALSE
    /\ sem_used' = sem_used - 1
    /\ pc' = [pc EXCEPT ![t] = "sem_free"]
    /\ UNCHANGED <<nicVars, outVars, sockVars, utilVars, target, lifeVars, mutexVars, sem_value,
                   initCount, nSignal, nWaitOk, mboxVars, arg, last>>

\* sys_sem_free(sem), second half: sem_destroy(&sem->sem)
sys_sem_free_return(t) ==
    /\ pc[t] = "sem_free"
    /\ sem_alive' = FALSE
    /\ Done(t, "sem_free", 0, 0)
    /\ UNCHANGED <<nicVars, outVars, sockVars, utilVars, target, mbox_alive, mutexVars, semVars, mboxVars>>

(***************************************************************************)
(* Mailboxes.                                                              *)
(***************************************************************************)
\* sys_mbox_new(mb, size); err is the result of mailbox_ptr_init.
\* The owner of a mailbox does not create it anew while it is being freed.
sys_mbox_new(t, size, err) ==
    /\ target = "mbox"
    /\ pc[t] = "idle"
    /\ \A u \in Tasks : pc[u] # "mbox_free"
    /\ mbox_used < MaxNew
    /\ mbox_valid' = TRUE
    /\ mbox_used' = mbox_used + 1
    /\ IF err # 0
       THEN /\ Done(t, "mbox_new", ERR_MEM, 0)
            /\ UNCHANGED <<mbox_q, mbox_size, mbox_alive>>
       ELSE /\ mbox_q' = <<>>
            /\ mbox_alive' = TRUE
            /\ mbox_size' = size
            /\ Done(t, "mbox_new", ERR_OK, 0)
    /\ UNCHANGED <<nicVars, outVars, sockVars, utilVars, target, sem_alive, mutexVars, semVars, nPost>>

\* sys_mbox_trypost(mbox, msg)
sys_mbox_trypost(t) ==
    /\ target = "mbox"
    /\ pc[t] = "idle"
    /\ mbox_size > 0
    /\ nPost < MaxPosts
    /\ LET err == mailbox_ptr_trypost_err(mbox_q)
       IN  /\ mbox_q' = IF err = 0 THEN Append(mbox_q, nPost + 1) ELSE mbox_q
           /\ nPost' = IF err = 0 THEN nPost + 1 ELSE nPost
           /\ Done(t, "mbox_trypost", sys_mbox_trypost_ret(err), 0)
    /\ UNCHANGED <<nicVars, outVars, sockVars, utilVars, target, lifeVars, mutexVars, mbox_valid, mbox_used, mbox_size, semVars>>

\* sys_mbox_post(mbox, msg): the call enters mailbox_ptr_post
sys_mbox_post_call(t) ==
    /\ target = "mbox"
    /\ pc[t] = "idle"
    /\ mbox_size > 0
    /\ pc' = [pc EXCEPT ![t] = "mbox_post"]
    /\ UNCHANGED <<nicVars, outVars, sockVars, utilVars, target, lifeVars, mutexVars, semVars, mboxVars, arg, last>>

\* mailbox_ptr_post finds a free box
sys_mbox_post_return(t) ==
    /\ pc[t] = "mbox_post"
    /\ nPost < MaxPosts
    /\ Len(mbox_q) < MAILBOX_SIZE
    /\ mbox_q' = Append(mbox_q, nPost + 1)
    /\ nPost' = nPost + 1
    /\ Done(t, "mbox_post", 0, 0)
    /\ UNCHANGED <<nicVars, outVars, sockVars, utilVars, target, lifeVars, mutexVars, mbox_valid, mbox_used, mbox_size, semVars>>

\* sys_arch_mbox_fetch(mbox, msg, timeout): the call enters mailbox_ptr_fetch
sys_arch_mbox_fetch_call(t, timeout) ==
    /\ target = "mbox"
    /\ pc[t] = "idle"
    /\ mbox_size > 0
    /\ pc' = [pc EXCEPT ![t] = "mbox_fetch"]
    /\ arg' = [arg EXCEPT ![t] = timeout]
    /\ UNCHANGED <<nicVars, outVars, sockVars, utilVars, target, lifeVars, mutexVars, semVars, mboxVars, last>>

\* mailbox_ptr_fetch finds a mail and takes it, or its deadline has passed
sys_arch_mbox_fetch_return(t, timedout) ==
    /\ pc[t] = "mbox_fetch"
    /\ timedout => arg[t] # 0
    /\ LET err == sem_wait_err(Len(mbox_q), timedout)
       IN  /\ err <= 0
           /\ mbox_q' = IF err = 0 THEN Tail(mbox_q) ELSE mbox_q
           /\ Done(t, "mbox_fetch", sys_arch_mbox_fetch_ret(err),
                   IF err = 0 THEN Head(mbox_q) ELSE 0)
    /\ UNCHANGED <<nicVars, outVars, sockVars, utilVars, target, lifeVars, mutexVars, mbox_valid, mbox_used, mbox_size, nPost, semVars>>

\* sys_arch_mbox_tryfetch(mbox, msg)
sys_arch_mbox_tryfetch(t) ==
    /\ target = "mbox"
    /\ pc[t] = "idle"
    /\ mbox_size > 0
    /\ LET r == mailbox_ptr_tryfetch_err(mbox_q)
       IN  /\ mbox_q' = IF r = 0 THEN Tail(mbox_q) ELSE mbox_q
           /\ Done(t, "mbox_tryfetch", sys_arch_mbox_tryfetch_ret(r),
                   IF r = 0 THEN Head(mbox_q) ELSE 0)
    /\ UNCHANGED <<nicVars, outVars, sockVars, utilVars, target, lifeVars, mutexVars, mbox_valid, mbox_used, mbox_size, nPost, semVars>>

\* sys_mbox_valid(mbox): returns mbox->valid
sys_mbox_valid(t) ==
    /\ target = "mbox"
    /\ pc[t] = "idle"
    /\ Done(t, "mbox_valid", IF mbox_valid THEN 1 ELSE 0, 0)
    /\ UNCHANGED <<nicVars, outVars, sockVars, utilVars, target, lifeVars, mutexVars, semVars, mboxVars>>

\* sys_mbox_free(mbox), first half: mbox->valid = FALSE; SYS_STATS_DEC(mbox.used)
sys_mbox_free_call(t) ==
    /\ target = "mbox"
    /\ pc[t] = "idle"
    /\ mbox_valid
    /\ \A u \in Tasks : pc[u] # "mbox_free"
    /\ mbox_valid' = FALSE
    /\ mbox_used' = mbox_used - 1
    /\ pc' = [pc EXCEPT ![t] = "mbox_free"]
    /\ UNCHANGED <<nicVars, outVars, sockVars, utilVars, target, lifeVars, mutexVars, semVars,
                   mbox_q, mbox_size, nPost, arg, last>>

\* sys_mbox_free(mbox), second half: mailbox_ptr_destroy(&mbox->mailbox);
\* the mailbox is used no more
sys_mbox_free_return(t) ==
    /\ pc[t] = "mbox_free"
    /\ mbox_alive' = FALSE
    /\ mbox_q' = <<>>
    /\ mbox_size' = 0
    /\ Done(t, "mbox_free", 0, 0)
    /\ UNCHANGED <<nicVars, outVars, sockVars, utilVars, target, sem_alive, mutexVars, semVars,
                   mbox_valid, mbox_used, nPost>>

(***************************************************************************)
(* Mutexes: a kernel semaphore created with the value 1.                   *)
(***************************************************************************)
\* a variant that creates the semaphore with the value 2
sys_mutex_new_count2(t) ==
    /\ target = "mutex"
    /\ pc[t] = "idle"
    /\ ~mutex_made
    /\ mutex_made' = TRUE
    /\ mutex_value' = 2
    /\ mutex_used' = mutex_used + 1
    /\ Done(t, "mutex_new", ERR_OK, 0)
    /\ UNCHANGED <<nicVars, outVars, sockVars, utilVars, target, lifeVars, nLocked, unlockers,
                   holding, undisciplined, semVars, mboxVars>>

\* sys_mutex_new(m): SYS_STATS_INC_USED(mutex); sem_init(m, 1); return ERR_OK
sys_mutex_new(t) ==
    /\ target = "mutex"
    /\ pc[t] = "idle"
    /\ ~mutex_made
    /\ mutex_made' = TRUE
    /\ mutex_value' = 1
    /\ mutex_used' = mutex_used + 1
    /\ Done(t, "mutex_new", ERR_OK, 0)
    /\ UNCHANGED <<nicVars, outVars, sockVars, utilVars, target, lifeVars, nLocked, unlockers,
                   holding, undisciplined, semVars, mboxVars>>

\* sys_mutex_lock(mutex): the call enters sem_wait(mutex, 0)
sys_mutex_lock_call(t) ==
    /\ target = "mutex"
    /\ pc[t] = "idle"
    /\ mutex_made
    /\ nLocked[t] < MaxCount
    /\ pc' = [pc EXCEPT ![t] = "mutex_lock"]
    /\ UNCHANGED <<nicVars, outVars, sockVars, utilVars, target, lifeVars, mutexVars, semVars,
                   mboxVars, arg, last>>

\* sem_wait finds value > 0 and takes it; without a timeout it returns
\* in no other way
sys_mutex_lock_return(t) ==
    /\ pc[t] = "mutex_lock"
    /\ sem_wait_err(mutex_value, FALSE) = 0
    /\ mutex_value' = mutex_value - 1
    /\ nLocked' = [nLocked EXCEPT ![t] = @ + 1]
    /\ holding' = [holding EXCEPT ![t] = @ + 1]
    /\ Done(t, "mutex_lock", 0, 0)
    /\ UNCHANGED <<nicVars, outVars, sockVars, utilVars, target, lifeVars, mutex_made, mutex_used,
                   unlockers, undisciplined, semVars, mboxVars>>

\* a variant in which only a task that has locked the mutex may unlock it
sys_mutex_unlock_owner(t) ==
    /\ target = "mutex"
    /\ pc[t] = "idle"
    /\ mutex_made
    /\ nLocked[t] > 0
    /\ mutex_value < MaxCount
    /\ mutex_value' = mutex_value + 1
    /\ unlockers' = unlockers \cup {t}
    /\ holding' = [holding EXCEPT ![t] = IF @ > 0 THEN @ - 1 ELSE 0]
    /\ undisciplined' = (undisciplined \/ holding[t] = 0)
    /\ Done(t, "mutex_unlock", 0, 0)
    /\ UNCHANGED <<nicVars, outVars, sockVars, utilVars, target, lifeVars, mutex_made, mutex_used,
                   nLocked, semVars, mboxVars>>

\* sys_mutex_unlock(mutex): sem_post(mutex)
sys_mutex_unlock(t) ==
    /\ target = "mutex"
    /\ pc[t] = "idle"
    /\ mutex_made
    /\ mutex_value < MaxCount
    /\ mutex_value' = mutex_value + 1
    /\ unlockers' = unlockers \cup {t}
    /\ holding' = [holding EXCEPT ![t] = IF @ > 0 THEN @ - 1 ELSE 0]
    /\ undisciplined' = (undisciplined \/ holding[t] = 0)
    /\ Done(t, "mutex_unlock", 0, 0)
    /\ UNCHANGED <<nicVars, outVars, sockVars, utilVars, target, lifeVars, mutex_made, mutex_used,
                   nLocked, semVars, mboxVars>>

NextSys ==
    \E t \in Tasks :
        \/ \E count \in 0..MaxCount, err \in {0, -EINVAL} : sys_sem_new(t, count, err)
        \/ sys_sem_signal(t)
        \/ \E timeout \in {0, 1} : sys_arch_sem_wait_call(t, timeout)
        \/ \E timedout \in BOOLEAN : sys_arch_sem_wait_return(t, timedout)
        \/ \E size \in 1..MaxSize, err \in {0, -EINVAL} : sys_mbox_new(t, size, err)
        \/ sys_mbox_trypost(t)
        \/ sys_mbox_post_call(t)
        \/ sys_mbox_post_return(t)
        \/ \E timeout \in {0, 1} : sys_arch_mbox_fetch_call(t, timeout)
        \/ \E timedout \in BOOLEAN : sys_arch_mbox_fetch_return(t, timedout)
        \/ sys_arch_mbox_tryfetch(t)
        \/ sys_sem_valid(t)
        \/ sys_sem_free_call(t)
        \/ sys_sem_free_return(t)
        \/ sys_mbox_valid(t)
        \/ sys_mbox_free_call(t)
        \/ sys_mbox_free_return(t)
        \/ sys_mutex_new(t)
        \/ sys_mutex_lock_call(t)
        \/ sys_mutex_lock_return(t)
        \/ sys_mutex_unlock(t)

SpecSys == InitSys /\ [][NextSys]_vars

(***************************************************************************)
(* uhyve-net.c: initialisation.  uhyve_netif_init runs in a kernel task    *)
(* with interrupts enabled; the interrupt handler preempts it, so the      *)
(* task takes a step only while no handler invocation is in progress.      *)
(***************************************************************************)
TaskRuns == ppc["irq"] = "idle"

\* init_uhyve_netif: uhyve_net_stat() reports the link; when it is down the
\* function returns -ENODEV ("down")
InitStat(up) ==
    /\ TaskRuns
    /\ init_pc = "start"
    /\ init_pc' = IF up THEN "add" ELSE "down"
    /\ UNCHANGED <<uhyve_net_init_ok, mynetif, handler, pollVars, pbufVars, statVars,
                   irqVars, sysVars, outVars, sockVars, utilVars>>

\* netifapi_netif_add: fails (init_uhyve_netif returns -ENODEV, "failed"),
\* or calls uhyve_netif_init, which sets
\* netif->state and mynetif and decodes the MAC address
InitAdd(ok) ==
    /\ TaskRuns
    /\ init_pc = "add"
    /\ init_pc' = IF ok THEN "netif" ELSE "failed"
    /\ mynetif' = IF ok THEN TRUE ELSE mynetif
    /\ UNCHANGED <<uhyve_net_init_ok, handler, pollVars, pbufVars, statVars, irqVars,
                   sysVars, outVars, sockVars, utilVars>>

\* uhyve_netif_init: irq_install_handler(UHYVE_IRQ, uhyve_irqhandler)
InitInstallHandler ==
    /\ TaskRuns
    /\ init_pc = "netif"
    /\ handler' = TRUE
    /\ init_pc' = "installed"
    /\ UNCHANGED <<uhyve_net_init_ok, mynetif, pollVars, pbufVars, statVars, irqVars,
                   sysVars, outVars, sockVars, utilVars>>

\* uhyve_netif_init: the interface fields are set, then uhyve_net_init_ok = 1
InitOk ==
    /\ TaskRuns
    /\ init_pc = "installed"
    /\ uhyve_net_init_ok' = 1
    /\ init_pc' = "ok"
    /\ UNCHANGED <<mynetif, handler, pollVars, pbufVars, statVars, irqVars, sysVars, outVars, sockVars, utilVars>>

\* uhyve_netif_init: the direct call uhyve_netif_poll()
InitPollCall ==
    /\ TaskRuns
    /\ init_pc = "ok"
    /\ init_pc' = "poll"
    /\ ppc' = [ppc EXCEPT !["init"] = "enter"]
    /\ inv' = [inv EXCEPT !["init"] = NoInv]
    /\ UNCHANGED <<uhyve_net_init_ok, mynetif, handler, rx_buf, plen, pp, cur, nFrames,
                   pbufVars, statVars, irqVars, sysVars, outVars, sockVars, utilVars>>

\* a call of uhyve_netif_poll() from elsewhere in the kernel, after
\* init_uhyve_netif has returned -ENODEV
ExtPollCall ==
    /\ TaskRuns
    /\ init_pc \in {"down", "failed"}
    /\ ppc["ext"] = "idle"
    /\ ppc' = [ppc EXCEPT !["ext"] = "enter"]
    /\ inv' = [inv EXCEPT !["ext"] = NoInv]
    /\ UNCHANGED <<drvVars, rx_buf, plen, pp, cur, nFrames, pbufVars, statVars, irqVars,
                   sysVars, outVars, sockVars, utilVars>>

\* uhyve_irqhandler: the interrupt is delivered and the handler calls
\* uhyve_netif_poll; the line is not delivered again while it runs
Irq ==
    /\ handler
    /\ ppc["irq"] = "idle"
    /\ nIrq < MaxIrq
    /\ nIrq' = nIrq + 1
    /\ ppc' = [ppc EXCEPT !["irq"] = "enter"]
    /\ inv' = [inv EXCEPT !["irq"] = NoInv]
    /\ UNCHANGED <<drvVars, rx_buf, plen, pp, cur, nFrames, pbufVars, statVars, nEoi,
                   sysVars, outVars, sockVars, utilVars>>

(***************************************************************************)
(* uhyve-net.c: uhyve_netif_poll, one step per statement.                  *)
(***************************************************************************)
Runs(c) == ppc[c] # "idle" /\ (c # "irq" => TaskRuns)

\* a variant that polls without looking at uhyve_net_init_ok
PollEnter_nocheck(c) ==
    /\ Runs(c)
    /\ ppc[c] = "enter"
    /\ ppc' = [ppc EXCEPT ![c] = "read"]
    /\ plen' = [plen EXCEPT ![c] = RX_BUF_LEN]
    /\ pp' = [pp EXCEPT ![c] = 0]
    /\ inv' = [inv EXCEPT ![c].entered = TRUE]
    /\ UNCHANGED <<drvVars, rx_buf, cur, nFrames, pbufVars, statVars, irqVars, sysVars, outVars, sockVars, utilVars>>

\* if (!uhyve_net_init_ok) return;  int len = RX_BUF_LEN; p = NULL;
PollEnter(c) ==
    /\ Runs(c)
    /\ ppc[c] = "enter"
    /\ IF uhyve_net_init_ok = 0
       THEN /\ ppc' = [ppc EXCEPT ![c] = "ret"]
            /\ UNCHANGED <<plen, pp, inv>>
       ELSE /\ ppc' = [ppc EXCEPT ![c] = "read"]
            /\ plen' = [plen EXCEPT ![c] = RX_BUF_LEN]
            /\ pp' = [pp EXCEPT ![c] = 0]
            /\ inv' = [inv EXCEPT ![c].entered = TRUE]
    /\ UNCHANGED <<drvVars, rx_buf, cur, nFrames, pbufVars, statVars, irqVars, sysVars, outVars, sockVars, utilVars>>

Min(a, b) == IF a < b THEN a ELSE b

\* uhyve_net_read_sync(rx_buf, &len) == 0: the hypervisor copies at most len
\* bytes of its next frame (of length n) into rx_buf and sets len
PollReadData(c, n) ==
    /\ Runs(c)
    /\ ppc[c] = "read"
    /\ nFrames < MaxFrames
    /\ nFrames' = nFrames + 1
    /\ rx_buf' = [frame |-> nFrames + 1, len |-> Min(n, plen[c])]
    /\ plen' = [plen EXCEPT ![c] = Min(n, plen[c])]
    /\ cur' = [cur EXCEPT ![c] = nFrames + 1]
    /\ inv' = [inv EXCEPT ![c].read = @ + 1]
    /\ ppc' = [ppc EXCEPT ![c] = "alloc"]
    /\ UNCHANGED <<drvVars, pp, pbufVars, statVars, irqVars, sysVars, outVars, sockVars, utilVars>>

\* uhyve_net_read_sync(rx_buf, &len) != 0: no frame, the loop ends
PollReadNone(c) ==
    /\ Runs(c)
    /\ ppc[c] = "read"
    /\ inv' = [inv EXCEPT ![c].drained = TRUE]
    /\ ppc' = [ppc EXCEPT ![c] = "eoi"]
    /\ UNCHANGED <<drvVars, rx_buf, plen, pp, cur, nFrames, pbufVars, statVars, irqVars,
                   sysVars, outVars, sockVars, utilVars>>

\* p = pbuf_alloc(PBUF_RAW, len, PBUF_POOL) succeeds
PollAllocOk(c) ==
    /\ Runs(c)
    /\ ppc[c] = "alloc"
    /\ pp' = [pp EXCEPT ![c] = cur[c]]
    /\ owner' = [owner EXCEPT ![cur[c]] = "driver"]
    /\ ppc' = [ppc EXCEPT ![c] = "copy"]
    /\ UNCHANGED <<drvVars, rx_buf, plen, cur, inv, nFrames, freed, data, tcpipq,
                   delivered, statVars, irqVars, sysVars, outVars, sockVars, utilVars>>

\* a variant that leaves the loop when the allocation fails
PollAllocFail_break(c) ==
    /\ Runs(c)
    /\ ppc[c] = "alloc"
    /\ pp' = [pp EXCEPT ![c] = 0]
    /\ link_memerr' = link_memerr + 1
    /\ link_drop' = link_drop + 1
    /\ inv' = [inv EXCEPT ![c].drop = @ + 1]
    /\ ppc' = [ppc EXCEPT ![c] = "eoi"]
    /\ UNCHANGED <<drvVars, rx_buf, plen, cur, nFrames, pbufVars, link_recv, irqVars,
                   sysVars, outVars, sockVars, utilVars>>

\* p = pbuf_alloc(...) returns NULL: link.memerr and link.drop are counted
\* and the loop reads again
PollAllocFail(c) ==
    /\ Runs(c)
    /\ ppc[c] = "alloc"
    /\ pp' = [pp EXCEPT ![c] = 0]
    /\ link_memerr' = link_memerr + 1
    /\ link_drop' = link_drop + 1
    /\ inv' = [inv EXCEPT ![c].drop = @ + 1]
    /\ ppc' = [ppc EXCEPT ![c] = "read"]
    /\ UNCHANGED <<drvVars, rx_buf, plen, cur, nFrames, pbufVars, link_recv, irqVars,
                   sysVars, outVars, sockVars, utilVars>>

\* the memcpy loop from rx_buf into the segments of p
PollCopy(c) ==
    /\ Runs(c)
    /\ ppc[c] = "copy"
    /\ data' = [data EXCEPT ![pp[c]] = rx_buf.frame]
    /\ ppc' = [ppc EXCEPT ![c] = "handoff"]
    /\ UNCHANGED <<drvVars, rx_buf, plen, pp, cur, inv, nFrames, owner, freed, tcpipq,
                   delivered, statVars, irqVars, sysVars, outVars, sockVars, utilVars>>

\* a variant that calls consume_packet itself instead of queueing it
PollHandoffOk_direct(c) ==
    /\ Runs(c)
    /\ ppc[c] = "handoff"
    /\ Len(tcpipq) < TcpipMboxSize
    /\ delivered' = Append(delivered, pp[c])
    /\ owner' = [owner EXCEPT ![pp[c]] = "stack"]
    /\ link_recv' = link_recv + 1
    /\ inv' = [inv EXCEPT ![c].hand = @ + 1]
    /\ ppc' = [ppc EXCEPT ![c] = "read"]
    /\ UNCHANGED <<drvVars, rx_buf, plen, pp, cur, nFrames, freed, data, tcpipq,
                   link_drop, link_memerr, irqVars, sysVars, outVars, sockVars, utilVars>>

\* tcpip_callback_with_block(consume_packet, p, 0) == ERR_OK: the callback
\* is queued for the worker thread and link.recv is counted
PollHandoffOk(c) ==
    /\ Runs(c)
    /\ ppc[c] = "handoff"
    /\ Len(tcpipq) < TcpipMboxSize
    /\ tcpipq' = Append(tcpipq, pp[c])
    /\ owner' = [owner EXCEPT ![pp[c]] = "worker"]
    /\ link_recv' = link_recv + 1
    /\ inv' = [inv EXCEPT ![c].hand = @ + 1]
    /\ ppc' = [ppc EXCEPT ![c] = "read"]
    /\ UNCHANGED <<drvVars, rx_buf, plen, pp, cur, nFrames, freed, data, delivered,
                   link_drop, link_memerr, irqVars, sysVars, outVars, sockVars, utilVars>>

\* a variant that forgets pbuf_free(p) when the hand-off is rejected
PollHandoffFail_nofree(c) ==
    /\ Runs(c)
    /\ ppc[c] = "handoff"
    /\ link_drop' = link_drop + 1
    /\ inv' = [inv EXCEPT ![c].drop = @ + 1]
    /\ ppc' = [ppc EXCEPT ![c] = "read"]
    /\ UNCHANGED <<drvVars, rx_buf, plen, pp, cur, nFrames, pbufVars, link_recv,
                   link_memerr, irqVars, sysVars, outVars, sockVars, utilVars>>

\* tcpip_callback_with_block(...) != ERR_OK (the queue is full, or no
\* message could be allocated): link.drop is counted and pbuf_free(p) called
PollHandoffFail(c) ==
    /\ Runs(c)
    /\ ppc[c] = "handoff"
    /\ link_drop' = link_drop + 1
    /\ freed' = [freed EXCEPT ![pp[c]] = @ + 1]
    /\ owner' = [owner EXCEPT ![pp[c]] = "freed"]
    /\ inv' = [inv EXCEPT ![c].drop = @ + 1]
    /\ ppc' = [ppc EXCEPT ![c] = "read"]
    /\ UNCHANGED <<drvVars, rx_buf, plen, pp, cur, nFrames, data, tcpipq, delivered,
                   link_recv, link_memerr, irqVars, sysVars, outVars, sockVars, utilVars>>

\* eoi();
PollEoi(c) ==
    /\ Runs(c)
    /\ ppc[c] = "eoi"
    /\ nEoi' = nEoi + 1
    /\ inv' = [inv EXCEPT ![c].ack = @ + 1]
    /\ ppc' = [ppc EXCEPT ![c] = "ret"]
    /\ UNCHANGED <<drvVars, rx_buf, plen, pp, cur, nFrames, pbufVars, statVars, nIrq,
                   sysVars, outVars, sockVars, utilVars>>

\* uhyve_netif_poll returns: to uhyve_irqhandler (iretq), or to
\* uhyve_netif_init, which returns ERR_OK
PollReturn(c) ==
    /\ Runs(c)
    /\ ppc[c] = "ret"
    /\ ppc' = [ppc EXCEPT ![c] = "idle"]
    /\ plen' = [plen EXCEPT ![c] = 0]
    /\ pp' = [pp EXCEPT ![c] = 0]
    /\ cur' = [cur EXCEPT ![c] = 0]
    /\ inv' = [inv EXCEPT ![c] = NoInv]
    /\ init_pc' = IF c = "init" THEN "done" ELSE init_pc
    /\ UNCHANGED <<uhyve_net_init_ok, mynetif, handler, rx_buf, nFrames, pbufVars,
                   statVars, irqVars, sysVars, outVars, sockVars, utilVars>>

\* the stack's worker thread runs the next queued callback:
\* consume_packet(p) calls mynetif->input(p, mynetif)
consume_packet ==
    /\ tcpipq # <<>>
    /\ mynetif
    /\ delivered' = Append(delivered, Head(tcpipq))
    /\ owner' = [owner EXCEPT ![Head(tcpipq)] = "stack"]
    /\ tcpipq' = Tail(tcpipq)
    /\ UNCHANGED <<drvVars, pollVars, freed, data, statVars, irqVars, sysVars, outVars, sockVars, utilVars>>

NextNic ==
    \/ \E up \in BOOLEAN : InitStat(up)
    \/ \E ok \in BOOLEAN : InitAdd(ok)
    \/ InitInstallHandler
    \/ InitOk
    \/ InitPollCall
    \/ ExtPollCall
    \/ Irq
    \/ \E c \in Ctx :
        \/ PollEnter(c)
        \/ \E n \in FrameLens : PollReadData(c, n)
        \/ PollReadNone(c)
        \/ PollAllocOk(c)
        \/ PollAllocFail(c)
        \/ PollCopy(c)
        \/ PollHandoffOk(c)
        \/ PollHandoffFail(c)
        \/ PollEoi(c)
        \/ PollReturn(c)
    \/ consume_packet

SpecNic == Init /\ [][NextNic]_vars

(***************************************************************************)
(* uhyve-net.c: the transmit path.                                         *)
(***************************************************************************)
\* lengths of the segments of the frames given to uhyve_netif_output
SegLens == {1, 895, 896, 897, 1791, 1792, 1793}

RECURSIVE SumSeq(_)
SumSeq(q) == IF q = <<>> THEN 0 ELSE Head(q) + SumSeq(Tail(q))

Chains == UNION {[1..n -> SegLens] : n \in 1..MaxSegs}

\* p->tot_len of a chain: the sum of the len of its segments (u16_t)
tot_len(chain) == SumSeq(chain) % 65536

TooLong_ge(tot) == tot >= MaxFrameLen

\* p->tot_len > 1792
TooLong(tot) == tot > MaxFrameLen

\* uhyve_netif_output(netif, p): one uhyve_net_write_sync(q->payload, q->len)
\* per segment q of p, then link.xmit is counted
uhyve_netif_output(chain) ==
    /\ link_xmit < MaxXmit
    /\ IF TooLong(tot_len(chain))
       THEN /\ out' = [chain |-> chain, ret |-> ERR_IF, writes |-> <<>>,
                       xmit0 |-> link_xmit]
            /\ link_xmit' = link_xmit
       ELSE /\ out' = [chain |-> chain, ret |-> ERR_OK, writes |-> chain,
                       xmit0 |-> link_xmit]
            /\ link_xmit' = link_xmit + 1
    /\ UNCHANGED <<sysVars, nicVars, sockVars, utilVars>>

NextOut == \E chain \in Chains : uhyve_netif_output(chain)

SpecOut == Init /\ [][NextOut]_vars

(***************************************************************************)
(* sys_arch.c: the socket shim.  The stack's native call lwip_xxx is given *)
(* by what it returns (nret) and the errno it sets when it fails (e).      *)
(***************************************************************************)
RECURSIVE BitAnd(_, _)
BitAnd(a, b) ==
    IF a = 0 \/ b = 0 THEN 0
    ELSE (a % 2) * (b % 2) + 2 * BitAnd(a \div 2, b \div 2)

RECURSIVE BitOr(_, _)
BitOr(a, b) ==
    IF a = 0 THEN b
    ELSE IF b = 0 THEN a
    ELSE (IF a % 2 = 1 \/ b % 2 = 1 THEN 1 ELSE 0) + 2 * BitOr(a \div 2, b \div 2)

\* s & ~LWIP_FD_BIT
StripFd(s) == BitAnd(s, NOT_LWIP_FD_BIT)

\* fd | LWIP_FD_BIT
TagFd(fd) == BitOr(fd, LWIP_FD_BIT)

\* the descriptors the callers hold: those socket() and accept() returned
Held == {pr[1] : pr \in opened}
\* the descriptors of the stack that are free
FreeFd == (0..(MaxFd - 1)) \ {pr[2] : pr \in opened}
Errnos == {EBADF, ENOPROTOOPT}

\* the shim call "name" with descriptor s: the stack received "native",
\* returned nret (setting errno to e when nret < 0), the shim returns r,
\* after *libc_errno() = errno when copy
Shim(name, s, native, nret, e, r, copy) ==
    /\ sock' = [call |-> name, s |-> s, native |-> native, nret |-> nret, ret |-> r]
    /\ errno' = IF nret < 0 THEN e ELSE errno
    /\ getreent' = IF copy THEN errno' ELSE getreent
    /\ UNCHANGED <<sysVars, nicVars, outVars, utilVars>>

\* if (fd < 0) { *libc_errno() = errno; return -1; } return fd | LWIP_FD_BIT;
socket(fd, e) ==
    /\ fd >= 0 => fd \in FreeFd
    /\ Shim("socket", 0, 0, fd, e, IF fd < 0 THEN -1 ELSE TagFd(fd), fd < 0)
    /\ opened' = IF fd < 0 THEN opened ELSE opened \cup {<<TagFd(fd), fd>>}

accept(s, fd, e) ==
    /\ s \in Held
    /\ fd >= 0 => fd \in FreeFd
    /\ Shim("accept", s, StripFd(s), fd, e, IF fd < 0 THEN -1 ELSE TagFd(fd), fd < 0)
    /\ opened' = IF fd < 0 THEN opened ELSE opened \cup {<<TagFd(fd), fd>>}

\* if (ret) { *libc_errno() = errno; return -1; } return 0;
ShimZero(name, s, nret, e) ==
    /\ s \in Held
    /\ Shim(name, s, StripFd(s), nret, e, IF nret # 0 THEN -1 ELSE 0, nret # 0)
    /\ UNCHANGED opened

bind(s, nret, e) == ShimZero("bind", s, nret, e)
getpeername(s, nret, e) == ShimZero("getpeername", s, nret, e)
getsockname(s, nret, e) == ShimZero("getsockname", s, nret, e)
connect(s, nret, e) == ShimZero("connect", s, nret, e)
listen(s, nret, e) == ShimZero("listen", s, nret, e)

\* if (ret) { if (errno == ENOPROTOOPT) {} else { *libc_errno() = errno;
\* return -1; } } return 0;   (errno is read after the stack has set it)
ShimOpt(name, s, nret, e) ==
    /\ s \in Held
    /\ LET en == IF nret < 0 THEN e ELSE errno
           fails == nret # 0 /\ en # ENOPROTOOPT
       IN  Shim(name, s, StripFd(s), nret, e, IF fails THEN -1 ELSE 0, fails)
    /\ UNCHANGED opened

getsockopt(s, nret, e) == ShimOpt("getsockopt", s, nret, e)
setsockopt(s, nret, e) == ShimOpt("setsockopt", s, nret, e)

\* if (ret < 0) { *libc_errno() = errno; return -1; } return ret;
ShimLen(name, s, nret, e) ==
    /\ s \in Held
    /\ Shim(name, s, StripFd(s), nret, e, IF nret < 0 THEN -1 ELSE nret, nret < 0)
    /\ UNCHANGED opened

recv(s, nret, e) == ShimLen("recv", s, nret, e)
recvfrom(s, nret, e) == ShimLen("recvfrom", s, nret, e)
send(s, nret, e) == ShimLen("send", s, nret, e)
sendto(s, nret, e) == ShimLen("sendto", s, nret, e)

\* return lwip_fcntl(s & ~LWIP_FD_BIT, cmd, val);
ShimPass(name, s, nret, e) ==
    /\ s \in Held
    /\ Shim(name, s, StripFd(s), nret, e, nret, FALSE)
    /\ UNCHANGED opened

fcntl(s, nret, e) == ShimPass("fcntl", s, nret, e)
shutdown(s, nret, e) == ShimPass("shutdown", s, nret, e)

\* poll(fds, nfds, timeout) with fds[0].fd = s: lwip_poll is given fds as
\* they are;  if (ret) { *libc_errno() = errno; return -1; } return 0;
poll(s, nret, e) ==
    /\ s \in Held
    /\ Shim("poll", s, s, nret, e, IF nret # 0 THEN -1 ELSE 0, nret # 0)
    /\ UNCHANGED opened

\* select(maxfdp1, readset, ...) with s in readset: lwip_select is given the
\* sets as they are;  if (ret < 0) { *libc_errno() = errno; return -1; }
\* sys_yield(); return ret;
select(s, nret, e) ==
    /\ s \in Held
    /\ Shim("select", s, s, nret, e, IF nret < 0 THEN -1 ELSE nret, nret < 0)
    /\ UNCHANGED opened

\* every descriptor the shim can return
Tagged == {TagFd(fd) : fd \in 0..(MaxFd - 1)}
\* what the stack's calls return: a descriptor, 0 or -1, a count
FdRet == -1..(MaxFd - 1)
ZeroRet == {-1, 0}
LenRet == -1..MaxReady

NextSock ==
    \/ \E fd \in FdRet, e \in Errnos : socket(fd, e)
    \/ \E s \in Tagged, fd \in FdRet, e \in Errnos : accept(s, fd, e)
    \/ \E s \in Tagged, nret \in ZeroRet, e \in Errnos : bind(s, nret, e)
    \/ \E s \in Tagged, nret \in ZeroRet, e \in Errnos : getpeername(s, nret, e)
    \/ \E s \in Tagged, nret \in ZeroRet, e \in Errnos : getsockname(s, nret, e)
    \/ \E s \in Tagged, nret \in ZeroRet, e \in Errnos : connect(s, nret, e)
    \/ \E s \in Tagged, nret \in ZeroRet, e \in Errnos : listen(s, nret, e)
    \/ \E s \in Tagged, nret \in ZeroRet, e \in Errnos : getsockopt(s, nret, e)
    \/ \E s \in Tagged, nret \in ZeroRet, e \in Errnos : setsockopt(s, nret, e)
    \/ \E s \in Tagged, nret \in ZeroRet, e \in Errnos : fcntl(s, nret, e)
    \/ \E s \in Tagged, nret \in ZeroRet, e \in Errnos : shutdown(s, nret, e)
    \/ \E s \in Tagged, nret \in LenRet, e \in Errnos : recv(s, nret, e)
    \/ \E s \in Tagged, nret \in LenRet, e \in Errnos : recvfrom(s, nret, e)
    \/ \E s \in Tagged, nret \in LenRet, e \in Errnos : send(s, nret, e)
    \/ \E s \in Tagged, nret \in LenRet, e \in Errnos : sendto(s, nret, e)
    \/ \E s \in Tagged, nret \in LenRet, e \in Errnos : poll(s, nret, e)
    \/ \E s \in Tagged, nret \in LenRet, e \in Errnos : select(s, nret, e)

SpecSock == Init /\ [][NextSock]_vars

(***************************************************************************)
(* sys_arch.c: the random number generator.  Two boots of the program run  *)
(* side by side so that their sequences can be compared.                   *)
(***************************************************************************)
\* values of the time stamp counter read by __rand_init
TscVals == (0..MaxTsc) \cup {126, 127, 128}
\* values the RDRAND instruction delivers
RdrandVals == {0, 7, RAND_MAX}

\* a variant that uses the seed as it is
__rand_s_keep0(seed) == seed

\* long s = (long)(*seed); if (s == 0) s = 0x12345987;
__rand_s(seed) == IF seed = 0 THEN 305420679 ELSE seed

\* k = s / 127773; s = 16807 * (s - k * 127773) - 2836 * k;
\* if (s < 0) s += 2147483647;   the value stored in *seed
__rand_seed(seed) ==
    LET s == __rand_s(seed)
        k == s \div 127773
        s2 == 16807 * (s - k * 127773) - 2836 * k
    IN  IF s2 < 0 THEN s2 + 2147483647 ELSE s2

\* return (int)(s & RAND_MAX);
__rand(seed) == BitAnd(__rand_seed(seed), RAND_MAX)

\* a variant that takes the RDRAND path whatever has_rdrand() says
lwip_rand_r_rdrand(hw, x, seed) == x % RAND_MAX

\* the value lwip_rand returns: rdrand() % RAND_MAX when the processor has
\* RDRAND (x is what the instruction delivers), else __rand(&rand_seed)
lwip_rand_r(hw, x, seed) == IF hw THEN x % RAND_MAX ELSE __rand(seed)

\* sys_init: __rand_init sets rand_seed = get_rdtsc() % 127
sys_init(b, tsc) ==
    /\ ~rand_inited[b]
    /\ rand_inited' = [rand_inited EXCEPT ![b] = TRUE]
    /\ rand_seed' = [rand_seed EXCEPT ![b] = tsc % 127]
    /\ rand_start' = [rand_start EXCEPT ![b] = tsc % 127]
    /\ rand_seq' = [rand_seq EXCEPT ![b] = <<>>]
    /\ UNCHANGED <<has_rdrand, macVars, copyVars, sysVars, nicVars, outVars, sockVars>>

\* lwip_rand(): under rand_lock, r = __rand(&rand_seed); the RDRAND path
\* leaves rand_seed alone
lwip_rand(b, x) ==
    /\ Len(rand_seq[b]) < MaxRand
    /\ rand_seq' = [rand_seq EXCEPT ![b] = Append(@, lwip_rand_r(has_rdrand, x, rand_seed[b]))]
    /\ rand_seed' = [rand_seed EXCEPT ![b] = IF has_rdrand THEN @ ELSE __rand_seed(@)]
    /\ UNCHANGED <<has_rdrand, rand_inited, rand_start, macVars, copyVars, sysVars, nicVars,
                   outVars, sockVars>>

NextRand ==
    \E b \in Boots :
        \/ \E tsc \in TscVals : sys_init(b, tsc)
        \/ \E x \in RdrandVals : lwip_rand(b, x)

InitRnd ==
    \E hw \in BOOLEAN :
        SysInit("none") /\ InitNic /\ InitOut /\ InitSock /\ InitRand(hw) /\ InitMac
            /\ InitCopy

SpecRand == InitRnd /\ [][NextRand]_vars

(***************************************************************************)
(* uhyve-net.c: decoding of the MAC address in uhyve_netif_init.           *)
(* Characters are held as their ASCII codes.                               *)
(***************************************************************************)
\* '0'..'9', 'a'..'f', 'A'..'F' and 'g', the characters the strings are made of
MacCharSeq ==
    <<48, 49, 50, 51, 52, 53, 54, 55, 56, 57, 97, 98, 99, 100, 101, 102,
      65, 66, 67, 68, 69, 70, 103>>
\* ':' and '-', the characters between two pairs
MacSeps == {58, 45}

\* a variant that knows no upper-case digits
dehex_lower(c) ==
    IF c >= 48 /\ c <= 57 THEN c - 48
    ELSE IF c >= 97 /\ c <= 102 THEN 10 + (c - 97)
    ELSE 0

\* dehex(c): '0' is 48, 'a' is 97, 'A' is 65
dehex(c) ==
    IF c >= 48 /\ c <= 57 THEN c - 48
    ELSE IF c >= 97 /\ c <= 102 THEN 10 + (c - 97)
    ELSE IF c >= 65 /\ c <= 70 THEN 10 + (c - 65)
    ELSE 0

\* the string whose pair i is made of the characters number k + i and
\* j + 2i of MacCharSeq, with sep after each pair but the last, then NUL
MacString(k, j, sep) ==
    [n \in 1..18 |->
        LET i == (n - 1) \div 3
            N == Len(MacCharSeq)
        IN  IF n = 18 THEN 0
            ELSE IF n % 3 = 1 THEN MacCharSeq[((k + i) % N) + 1]
            ELSE IF n % 3 = 2 THEN MacCharSeq[((j + 2 * i) % N) + 1]
            ELSE sep]

\* char *hermit_mac = hermit_net_mac_str(); tmp8 = 0
hermit_net_mac_str(k, j, sep) ==
    /\ mac_str = <<>>
    /\ mac_str' = MacString(k, j, sep)
    /\ mac_ptr' = 1
    /\ tmp8' = 0
    /\ UNCHANGED <<hwaddr, randVars, copyVars, sysVars, nicVars, outVars, sockVars>>

\* one turn of the loop: netif->hwaddr[tmp8] = dehex(*hermit_mac++) << 4;
\* netif->hwaddr[tmp8] |= dehex(*hermit_mac++); hermit_mac++; tmp8++
MacDecodeByte ==
    /\ mac_str # <<>>
    /\ tmp8 < ETHARP_HWADDR_LEN
    /\ hwaddr' = [hwaddr EXCEPT ![tmp8] =
                     BitOr((dehex(mac_str[mac_ptr]) * 16) % 256, dehex(mac_str[mac_ptr + 1]))]
    /\ mac_ptr' = mac_ptr + 3
    /\ tmp8' = (tmp8 + 1) % 256
    /\ UNCHANGED <<mac_str, randVars, copyVars, sysVars, nicVars, outVars, sockVars>>

NextMac ==
    \/ \E k \in 0..(Len(MacCharSeq) - 1), j \in 0..(Len(MacCharSeq) - 1), sep \in MacSeps :
           hermit_net_mac_str(k, j, sep)
    \/ MacDecodeByte

SpecMac == Init /\ [][NextMac]_vars

(***************************************************************************)
(* uhyve-net.c: the copy loop of uhyve_netif_poll, one received frame at a *)
(* time, with the layout pbuf_alloc(PBUF_RAW, len, PBUF_POOL) gives.       *)
(***************************************************************************)
\* lengths of the received frames
CopyLens == {60, 255, 256, 257, 300, 600, 1000, 1514, 2048}
\* sizes of the buffers of the pool (PBUF_POOL_BUFSIZE)
PoolBufSizes == {128, 256, 592, 1524}

\* the chain pbuf_alloc returns for len bytes: buffers of the pool, all
\* full but the last
PoolChain(len, size) ==
    [k \in 1..((len + size - 1) \div size) |->
        IF k * size <= len THEN size ELSE len - (k - 1) * size]

\* p = pbuf_alloc(PBUF_RAW, len, PBUF_POOL) succeeds; uint8_t pos = 0; q = p
CopyAlloc(len, size) ==
    /\ cp_chain = <<>>
    /\ cp_chain' = PoolChain(len, size)
    /\ cp_q' = 1
    /\ cp_pos' = 0
    /\ cp_src' = <<>>
    /\ UNCHANGED <<randVars, macVars, sysVars, nicVars, outVars, sockVars>>

\* one turn of the loop: memcpy(q->payload, rx_buf + pos, q->len);
\* pos += q->len; q = q->next      (pos is a uint8_t)
CopySegment ==
    /\ cp_chain # <<>>
    /\ cp_q <= Len(cp_chain)
    /\ cp_src' = Append(cp_src, cp_pos)
    /\ cp_pos' = (cp_pos + cp_chain[cp_q]) % 256
    /\ cp_q' = cp_q + 1
    /\ UNCHANGED <<cp_chain, randVars, macVars, sysVars, nicVars, outVars, sockVars>>

NextCopy ==
    \/ \E len \in CopyLens, size \in PoolBufSizes : CopyAlloc(len, size)
    \/ CopySegment

SpecCopy == Init /\ [][NextCopy]_vars

(***************************************************************************)
(* Claims about the semaphore and the mailbox, checked under SpecSys.      *)
(***************************************************************************)

\* C1: the number of sys_arch_sem_wait calls that returned 0 never exceeds
\* the number of sys_sem_signal calls plus the count the semaphore was
\* created with.
C1_WaitsBounded == nWaitOk <= nSignal + initCount

\* C1 witness: every unit of the semaphore has been taken by a successful
\* wait (two or more, one of them signalled), and a further bounded wait
\* has just timed out.
C1_Witness ==
    /\ nWaitOk = nSignal + initCount
    /\ nWaitOk >= 2
    /\ nSignal >= 1
    /\ last.op = "sem_wait"
    /\ last.ret = SYS_ARCH_TIMEOUT

\* C2 (as claimed): a mailbox created by sys_mbox_new(mb, N) holds at most N
\* messages, and sys_mbox_trypost reports it full (ERR_MEM) only when N
\* messages are outstanding.
C2_CapacityIsSize ==
    mbox_size > 0 =>
        /\ Len(mbox_q) <= mbox_size
        /\ (last.op = "mbox_trypost" /\ last.ret = ERR_MEM) => Len(mbox_q) >= mbox_size

\* C8: a wait or fetch that returns 0 took a unit of the semaphore, or
\* removed the oldest message and stored it in *msg; any other return is
\* SYS_ARCH_TIMEOUT and leaves the count, the mailbox and *msg as they were.
C8_TimeoutNotSuccess ==
    [][\A t \in Tasks :
        /\ (pc[t] = "sem_wait" /\ pc'[t] = "idle") =>
            /\ last'.ret = 0 => (sem_value > 0 /\ sem_value' = sem_value - 1)
            /\ last'.ret # 0 => (last'.ret = SYS_ARCH_TIMEOUT /\ sem_value' = sem_value)
        /\ (pc[t] = "mbox_fetch" /\ pc'[t] = "idle") =>
            /\ last'.ret = 0 =>
                (/\ mbox_q # <<>>
                 /\ mbox_q' = Tail(mbox_q)
                 /\ last'.msg = Head(mbox_q))
            /\ last'.ret # 0 =>
                (/\ last'.ret = SYS_ARCH_TIMEOUT
                 /\ mbox_q' = mbox_q
                 /\ last'.msg = 0)
      ]_vars

\* C8 witness: a bounded fetch has just returned SYS_ARCH_TIMEOUT on a
\* mailbox that had held a message and is empty again.
C8_Witness ==
    /\ last.op = "mbox_fetch"
    /\ last.ret = SYS_ARCH_TIMEOUT
    /\ mbox_q = <<>>
    /\ nPost >= 1

C17_NoOwnerTracking ==
    /\ [](\A t \in Tasks :
            /\ (target = "mutex" /\ mutex_made /\ pc[t] = "idle" /\ mutex_value < MaxCount)
                   => ENABLED sys_mutex_unlock(t)
            /\ (pc[t] = "mutex_lock" /\ mutex_value > 0)
                   => ENABLED sys_mutex_lock_return(t))
    /\ [][/\ (~mutex_made /\ mutex_made') => mutex_value' = 1
          /\ (last'.op = "mutex_unlock" /\ mutex_value' # mutex_value) =>
                 mutex_value' = mutex_value + 1
       ]_vars

\* C17 witness: one task has taken the mutex twice, and the only task that
\* has unlocked it is another one, which never locked it.
C17_Witness ==
    \E t, u \in Tasks :
        /\ t # u
        /\ nLocked[t] = 2
        /\ nLocked[u] = 0
        /\ unlockers = {u}
        /\ last.op = "mutex_lock"

\* C22 (as claimed): a sys_sem_new or sys_mbox_new that returns an error
\* leaves the object not valid and the counter of live objects
\* (lwip_stats.sys.sem.used, mbox.used) as it was; a successful one makes the
\* object valid and adds one, a free takes one off, and nothing else
\* changes the counter.
C22_FailedCreateLeavesNothing ==
    [][/\ (last'.op = "sem_new" /\ pc' = pc) =>
              IF last'.ret = ERR_OK
              THEN sem_valid' /\ sem_used' = sem_used + 1
              ELSE (~sem_valid => ~sem_valid') /\ sem_used' = sem_used
       /\ (last'.op = "mbox_new" /\ pc' = pc) =>
              IF last'.ret = ERR_OK
              THEN mbox_valid' /\ mbox_used' = mbox_used + 1
              ELSE (~mbox_valid => ~mbox_valid') /\ mbox_used' = mbox_used
       /\ \A t \in Tasks :
              /\ (pc[t] = "idle" /\ pc'[t] = "sem_free") => sem_used' = sem_used - 1
              /\ (pc[t] = "idle" /\ pc'[t] = "mbox_free") => mbox_used' = mbox_used - 1
       /\ (pc' = pc /\ last'.op # "sem_new") => sem_used' = sem_used
       /\ (pc' = pc /\ last'.op # "mbox_new") => mbox_used' = mbox_used
      ]_vars

\* C23: as long as every sys_mutex_unlock has come from the task holding
\* the mutex, at most one task is between a returned sys_mutex_lock and
\* its sys_mutex_unlock, no task holds the mutex twice, and the value of the
\* semaphore is 0 while a task holds it and 1 while none does.
C23_MutualExclusion ==
    (mutex_made /\ ~undisciplined) =>
        /\ Cardinality({t \in Tasks : holding[t] > 0}) <= 1
        /\ \A t \in Tasks : holding[t] <= 1
        /\ mutex_value \in {0, 1}
        /\ mutex_value = 0 <=> \E t \in Tasks : holding[t] > 0

\* C23 witness: every unlock so far came from the holder, both tasks have
\* held and released the mutex, one holds it again and the other is
\* blocked in sys_mutex_lock.
C23_Witness ==
    /\ ~undisciplined
    /\ unlockers = Tasks
    /\ \E t, u \in Tasks :
        /\ t # u
        /\ holding[t] = 1
        /\ nLocked[t] = 2
        /\ pc[u] = "mutex_lock"
        /\ mutex_value = 0

(***************************************************************************)
(* Claims about the receive path, checked under SpecNic.                   *)
(***************************************************************************)

\* C3 (as claimed): an invocation of uhyve_netif_poll made by the interrupt
\* handler has called eoi() exactly once when it returns.
C3_AckOncePerPoll == ppc["irq"] = "ret" => inv["irq"].ack = 1

\* the invocation has read a frame that is not yet handed off or dropped
InFlight(c) == ppc[c] \in {"alloc", "copy", "handoff"}

\* C4: in every invocation each frame read ends as one hand-off or as one
\* drop (hand-offs + drops = frames read at the head of the loop and on
\* return), the loop ends only when the channel reports no data, and the
\* statistics agree: link.recv + link.drop counts every frame read, and
\* link.memerr is part of link.drop.
C4_FramesAccounted ==
    /\ \A c \in Ctx :
        /\ ppc[c] \in {"read", "eoi", "ret"} =>
               inv[c].hand + inv[c].drop = inv[c].read
        /\ (ppc[c] \in {"eoi", "ret"} /\ inv[c].entered) => inv[c].drained
    /\ link_recv + link_drop + Cardinality({c \in Ctx : InFlight(c)}) = nFrames
    /\ link_memerr <= link_drop

\* C4 witness: an invocation returns having read three frames, one handed
\* off, one dropped for lack of memory, one dropped by a rejected hand-off,
\* and having acknowledged once.
C4_Witness ==
    \E c \in Ctx :
        /\ ppc[c] = "ret"
        /\ inv[c].read = 3
        /\ inv[c].hand = 1
        /\ inv[c].drop = 2
        /\ link_memerr = 1
        /\ inv[c].ack = 1

\* C5: every pbuf the poll allocated has one owner: the driver holds it only
\* while an invocation is copying into it or handing it off; a pbuf accepted
\* by the hand-off is in the worker's queue exactly once, or with the stack,
\* and was never freed; a rejected one was freed exactly once; and the
\* driver touches no pbuf it does not own.
C5_SingleOwner ==
    /\ \A f \in Frames :
        /\ freed[f] <= 1
        /\ owner[f] = "driver" =>
               Cardinality({c \in Ctx : pp[c] = f /\ ppc[c] \in {"copy", "handoff"}}) = 1
        /\ owner[f] = "worker" <=>
               Cardinality({i \in 1..Len(tcpipq) : tcpipq[i] = f}) = 1
        /\ owner[f] # "worker" => \A i \in 1..Len(tcpipq) : tcpipq[i] # f
        /\ owner[f] \in {"worker", "stack", "driver", "pool"} => freed[f] = 0
        /\ owner[f] = "freed" => freed[f] = 1
    /\ \A c \in Ctx : ppc[c] \in {"copy", "handoff"} => owner[pp[c]] = "driver"

\* C5 witness: one pbuf was freed after a rejected hand-off, one was
\* delivered to the stack by the worker, one is still queued.
C5_Witness ==
    \E f, g, h \in Frames :
        /\ owner[f] = "freed" /\ freed[f] = 1
        /\ owner[g] = "stack"
        /\ owner[h] = "worker"

\* the invocation has read into rx_buf and not yet completed the copy
MidFrame(c) == ppc[c] \in {"alloc", "copy"}

\* C6 (as claimed): no two invocations of uhyve_netif_poll are between a
\* read into rx_buf and the completion of the copy at the same time.
C6_NoConcurrentPoll == ~(MidFrame("init") /\ MidFrame("irq"))

\* a step of invocation c of uhyve_netif_poll
PollStep(c) ==
    \/ PollEnter(c)
    \/ \E n \in FrameLens : PollReadData(c, n)
    \/ PollReadNone(c)
    \/ PollAllocOk(c)
    \/ PollAllocFail(c)
    \/ PollCopy(c)
    \/ PollHandoffOk(c)
    \/ PollHandoffFail(c)
    \/ PollEoi(c)
    \/ PollReturn(c)

\* the pbufs handed to the worker thread so far, in the order of the hand-offs
HandedOff == delivered \o tcpipq

\* C19: an invocation of uhyve_netif_poll that is running always has a next
\* step (the read, the allocation and the hand-off return at once, with or
\* without success) and no step of it runs the interface's input function;
\* a hand-off only appends the pbuf to the worker's queue; input is run
\* by the worker thread alone, on the oldest queued pbuf, so once per
\* accepted hand-off and in the order of the hand-offs.
C19_PollNeverBlocks ==
    /\ [](/\ \A c \in Ctx : Runs(c) => ENABLED PollStep(c)
          /\ Len(HandedOff) = link_recv
          /\ \A i, j \in 1..Len(HandedOff) : HandedOff[i] = HandedOff[j] => i = j)
    /\ [][/\ ppc' # ppc => delivered' = delivered
          /\ delivered' # delivered =>
                 /\ tcpipq # <<>>
                 /\ delivered' = Append(delivered, Head(tcpipq))
                 /\ tcpipq' = Tail(tcpipq)
          /\ delivered' = delivered =>
                 \/ tcpipq' = tcpipq
                 \/ \E c \in Ctx : ppc[c] = "handoff" /\ tcpipq' = Append(tcpipq, pp[c])
       ]_vars

\* C19 witness: the worker has run input on the first two pbufs handed
\* off, the third is still queued, and the invocation that handed them off
\* has gone on to its next read.
C19_Witness ==
    /\ Len(delivered) = 2
    /\ Len(tcpipq) = 1
    /\ link_recv = 3
    /\ \E c \in Ctx : ppc[c] = "read" /\ inv[c].hand = 3

\* C20 (as claimed): every uhyve_net_read_sync call of an invocation, the
\* first and the later ones, offers RX_BUF_LEN as the capacity of rx_buf.
C20_ReadOffersFullBuffer ==
    \A c \in Ctx : ppc[c] = "read" => plen[c] = RX_BUF_LEN

\* C21 (as claimed): the driver has called eoi() at most as often as
\* interrupts were delivered to uhyve_irqhandler, the direct call of
\* uhyve_netif_poll at the end of initialisation included.
C21_AckOnlyDelivered == nEoi <= nIrq

\* C15: once init_uhyve_netif has returned -ENODEV because the channel
\* reported the link down, no interface is registered, no interrupt handler
\* is installed, uhyve_net_init_ok is 0, and no invocation of
\* uhyve_netif_poll reads from the channel, allocates or hands off.
C15_DownStaysUninitialized ==
    init_pc = "down" =>
        /\ ~mynetif
        /\ ~handler
        /\ uhyve_net_init_ok = 0
        /\ nFrames = 0
        /\ \A f \in Frames : owner[f] = "pool"
        /\ tcpipq = <<>>
        /\ link_recv = 0 /\ link_drop = 0 /\ link_memerr = 0
        /\ \A c \in Ctx : ppc[c] \in {"idle", "enter", "ret"} /\ inv[c].read = 0

\* C15 witness: with the link down, a later invocation of uhyve_netif_poll
\* is about to return.
C15_Witness == init_pc = "down" /\ ppc["ext"] = "ret"

(***************************************************************************)
(* Claim about the transmit path, checked under SpecOut.                   *)
(***************************************************************************)

\* C7: uhyve_netif_output returns ERR_IF for a frame of more than 1792
\* bytes, having written nothing to the channel and left link.xmit alone;
\* a frame of at most 1792 bytes is not rejected: every segment is written
\* and link.xmit is counted.
C7_FrameTooLarge ==
    out.chain # <<>> =>
        IF SumSeq(out.chain) > 1792
        THEN out.ret = ERR_IF /\ out.writes = <<>> /\ link_xmit = out.xmit0
        ELSE out.ret = ERR_OK /\ out.writes = out.chain /\ link_xmit = out.xmit0 + 1

\* C7 witness: a frame of 1793 bytes in two segments has just been rejected
\* after a frame had been sent.
C7_Witness ==
    /\ Len(out.chain) = 2
    /\ SumSeq(out.chain) = 1793
    /\ out.ret = ERR_IF
    /\ link_xmit = 1

(***************************************************************************)
(* Claims about the socket shim, checked under SpecSock.                   *)
(***************************************************************************)
DescriptorCalls ==
    {"accept", "bind", "getpeername", "getsockname", "connect", "listen",
     "getsockopt", "setsockopt", "recv", "recvfrom", "send", "sendto", "fcntl",
     "shutdown", "poll", "select"}

\* C9 (as claimed): socket() and accept() return the stack's descriptor d
\* with LWIP_FD_BIT set, and a shim call given that descriptor hands
\* exactly d to the stack's native call.
C9_DescriptorRoundTrip ==
    /\ \A pr \in opened : pr[1] = pr[2] + LWIP_FD_BIT
    /\ sock.call \in DescriptorCalls =>
           \E pr \in opened : pr[1] = sock.s /\ pr[2] = sock.native

\* C10 (as claimed): select and poll return what the stack's call returned
\* whenever that is >= 0, and -1 only when the stack's call failed.
C10_ForwardsReady ==
    sock.call \in {"poll", "select"} =>
        IF sock.nret >= 0 THEN sock.ret = sock.nret ELSE sock.ret = -1

\* the shim calls that take one descriptor and whose failure is reported
\* through the process-visible error location
ErrnoCalls == DescriptorCalls \ {"poll", "select"}

\* C11 (as claimed): when the stack's native call behind accept, bind,
\* connect, listen, send, sendto, recv, recvfrom, getsockname, getpeername,
\* fcntl, shutdown, or get/setsockopt (errors other than ENOPROTOOPT) has
\* failed, the shim has copied the stack's errno into *libc_errno() and
\* returned -1.
C11_ErrnoCopied ==
    (/\ sock.call \in ErrnoCalls
     /\ sock.nret < 0
     /\ ~(sock.call \in {"getsockopt", "setsockopt"} /\ errno = ENOPROTOOPT))
    => (sock.ret = -1 /\ getreent = errno)

(***************************************************************************)
(* Claims about the random number generator, checked under SpecRand.       *)
(***************************************************************************)

\* C12: on the software path, after every call of lwip_rand (the first
\* call after __rand_init set the seed to 0 and a call made before
\* sys_init, with the seed still 0, included) the stored seed is in
\* 1..2^31-2 and the value returned is in 0..2^31-1; two consecutive calls
\* never return the same value.
C12_SeedNeverZero ==
    ~has_rdrand =>
        \A b \in Boots :
            /\ Len(rand_seq[b]) > 0 =>
                /\ rand_seed[b] >= 1
                /\ rand_seed[b] <= 2147483646
            /\ \A i \in 1..Len(rand_seq[b]) :
                /\ rand_seq[b][i] >= 0
                /\ rand_seq[b][i] <= 2147483647
                /\ i > 1 => rand_seq[b][i] # rand_seq[b][i - 1]

\* C12 witness: __rand_init has set the seed to 0 and lwip_rand has been
\* called twice since on the software path.
C12_Witness ==
    /\ ~has_rdrand
    /\ \E b \in Boots :
        /\ rand_inited[b]
        /\ rand_start[b] = 0
        /\ Len(rand_seq[b]) = 2

HexLower == <<48, 49, 50, 51, 52, 53, 54, 55, 56, 57, 97, 98, 99, 100, 101, 102>>
HexUpper == <<48, 49, 50, 51, 52, 53, 54, 55, 56, 57, 65, 66, 67, 68, 69, 70>>
IsHexDigit(c) == \E v \in 1..16 : HexLower[v] = c \/ HexUpper[v] = c
HexValue(c) == (CHOOSE v \in 1..16 : HexLower[v] = c \/ HexUpper[v] = c) - 1

\* C14: byte i of the hardware address decoded from a string of
\* two-digit hexadecimal pairs at offsets 3i and 3i+1 is 16 * the value
\* of the first digit + the value of the second, a digit having the same
\* value in upper and in lower case.
C14_MacDecoded ==
    \A i \in 0..(ETHARP_HWADDR_LEN - 1) :
        (/\ i < tmp8
         /\ IsHexDigit(mac_str[3 * i + 1])
         /\ IsHexDigit(mac_str[3 * i + 2]))
        => hwaddr[i] = 16 * HexValue(mac_str[3 * i + 1]) + HexValue(mac_str[3 * i + 2])

\* C14 witness: all six bytes are decoded from a string of twelve
\* hexadecimal digits with letters in both cases: "aB" gives 0xab and
\* "bD" gives 0xbd.
C14_Witness ==
    /\ tmp8 = ETHARP_HWADDR_LEN
    /\ \A i \in 0..5 : IsHexDigit(mac_str[3 * i + 1]) /\ IsHexDigit(mac_str[3 * i + 2])
    /\ mac_str[1] = 97
    /\ mac_str[2] = 66
    /\ hwaddr[0] = 171
    /\ mac_str[4] = 98
    /\ mac_str[5] = 68
    /\ hwaddr[1] = 189

(***************************************************************************)
(* Claim about the copy loop, checked under SpecCopy.                      *)
(***************************************************************************)

\* C18 (as claimed): segment k of the allocated pbuf receives the bytes of
\* rx_buf that start at the offset equal to the sum of the lengths of the
\* segments before it, also when that offset exceeds 255.
C18_CopyOffsets ==
    \A k \in 1..Len(cp_src) : cp_src[k] = SumSeq(SubSeq(cp_chain, 1, k - 1))

=============================================================================
